---- MODULE Spec2Model ----
(***************************************************************************)
(* AIFM container: the write path (src/src/aifm_converter.py) and the read *)
(* path (src/src/aifm_reader.py) as one state machine.                     *)
(*                                                                         *)
(* Text (paths, ledger lines, digests) is a sequence of tokens.  A token   *)
(* is a TLA+ string standing for a fixed run of characters.  File names    *)
(* are spelled with the one-character tokens x, y, o, ".", "/", " " and    *)
(* "\n"; the fixed path components and the extensions are word tokens      *)
(* without "." or "/"; hexadecimal digits occur in digests only.  So two   *)
(* texts of the model are equal exactly when their token sequences are,    *)
(* and where two texts first differ the byte order of the differing        *)
(* tokens (TokenOrder) is the byte order of the texts.                     *)
(***************************************************************************)
EXTENDS Integers, Sequences, FiniteSets, TLC

VARIABLES opts, fs, disk, runs, edits, rd

vars == <<opts, fs, disk, runs, edits, rd>>

-----------------------------------------------------------------------------
(* Bounds of the model.                                                    *)

MaxByte == 1
MaxStems == 2
MaxNameLen == 2
MaxClock == 2
MaxRuns == 2
MaxEdits == 1
MaxLines == 2

-----------------------------------------------------------------------------
(* Generic helpers on sequences.                                           *)

None == "None"

Range(s) == {s[i] : i \in DOMAIN s}

SeqsUpTo(S, n) == UNION {[1..k -> S] : k \in 0..n}

\* s[a..b], empty when b < a
Slice(s, a, b) == IF b < a THEN <<>> ELSE SubSeq(s, a, b)

\* Tokens in ascending byte order of the characters they spell.
TokenOrder ==
    <<"\n", " ", ".", "/", "0", "1", "2", "3", "4", "5", "6", "7", "8", "9",
      "A", "AIFM", "B", "C", "D", "E", "F", "README", "WAV",
      "a", "aifm", "audio", "b", "c", "checksums", "d", "declaration", "e", "f",
      "json", "lyrics", "main", "manifest", "metadata", "negative_prompt",
      "o", "payload", "persona", "prompt", "sha256", "stems", "txt",
      "verification", "wav", "x", "y", "zip">>

RankOf ==
    [t \in Range(TokenOrder) |-> CHOOSE i \in DOMAIN TokenOrder : TokenOrder[i] = t]

Rank(t) == RankOf[t]

\* Python's str < str on the spelled strings.
RECURSIVE StrLess(_, _)
StrLess(s, t) ==
    IF t = <<>> THEN FALSE
    ELSE IF s = <<>> THEN TRUE
    ELSE IF Head(s) = Head(t) THEN StrLess(Tail(s), Tail(t))
    ELSE Rank(Head(s)) < Rank(Head(t))

\* str.lower() / str.upper() pairs among the tokens
LowerTok(t) ==
    CASE t = "AIFM" -> "aifm"
      [] t = "WAV" -> "wav"
      [] t = "A" -> "a"
      [] t = "B" -> "b"
      [] t = "C" -> "c"
      [] t = "D" -> "d"
      [] t = "E" -> "e"
      [] t = "F" -> "f"
      [] t = "README" -> "readme"
      [] OTHER -> t

Lower(s) == [i \in DOMAIN s |-> LowerTok(s[i])]

\* str.isspace() per character: the characters str.strip() and str.split() eat
IsSpace(t) == t \in {" ", "\n"}

\* the characters str.splitlines() breaks at
IsLineBreak(t) == t = "\n"

\* str.lstrip(chars) for a one-character set
RECURSIVE LStripTok(_, _)
LStripTok(s, c) ==
    IF s # <<>> /\ Head(s) = c THEN LStripTok(Tail(s), c) ELSE s

RECURSIVE LStrip(_)
LStrip(s) == IF s # <<>> /\ IsSpace(Head(s)) THEN LStrip(Tail(s)) ELSE s

RECURSIVE RStrip(_)
RStrip(s) ==
    IF s # <<>> /\ IsSpace(s[Len(s)]) THEN RStrip(SubSeq(s, 1, Len(s) - 1)) ELSE s

\* str.strip()
Strip(s) == RStrip(LStrip(s))

\* str.splitlines(): break at every line break, no empty last line
RECURSIVE SplitLines(_)
SplitLines(s) ==
    IF s = <<>> THEN <<>>
    ELSE IF \E i \in DOMAIN s : IsLineBreak(s[i])
         THEN LET i == CHOOSE j \in DOMAIN s :
                           IsLineBreak(s[j]) /\ \A k \in 1..(j - 1) : ~IsLineBreak(s[k])
              IN <<Slice(s, 1, i - 1)>> \o SplitLines(Slice(s, i + 1, Len(s)))
         ELSE <<s>>

\* str.split(): the maximal runs of non-whitespace
RECURSIVE SplitWs(_)
SplitWs(s) ==
    LET t == LStrip(s)
    IN IF t = <<>> THEN <<>>
       ELSE IF \E i \in DOMAIN t : IsSpace(t[i])
            THEN LET i == CHOOSE j \in DOMAIN t :
                              IsSpace(t[j]) /\ \A k \in 1..(j - 1) : ~IsSpace(t[k])
                 IN <<Slice(t, 1, i - 1)>> \o SplitWs(Slice(t, i + 1, Len(t)))
            ELSE <<t>>

\* "\n".join(lines)
RECURSIVE JoinLines(_)
JoinLines(lines) ==
    IF lines = <<>> THEN <<>>
    ELSE IF Len(lines) = 1 THEN lines[1]
    ELSE lines[1] \o <<"\n">> \o JoinLines(Tail(lines))

\* sorted(items, key = lambda x: x[0]) for items whose first field is text:
\* insertion sort, stable
RECURSIVE InsertByKey(_, _)
InsertByKey(e, s) ==
    IF s = <<>> THEN <<e>>
    ELSE IF StrLess(e[1], Head(s)[1]) THEN <<e>> \o s
    ELSE <<Head(s)>> \o InsertByKey(e, Tail(s))

RECURSIVE SortedByKey(_)
SortedByKey(s) ==
    IF s = <<>> THEN <<>>
    ELSE InsertByKey(s[Len(s)], SortedByKey(SubSeq(s, 1, Len(s) - 1)))

-----------------------------------------------------------------------------
(* Path handling: posixpath and pathlib as the converter uses them.        *)

\* str.split("/")
RECURSIVE SplitSlash(_)
SplitSlash(s) ==
    IF \E i \in DOMAIN s : s[i] = "/"
    THEN LET i == CHOOSE j \in DOMAIN s : s[j] = "/" /\ \A k \in 1..(j - 1) : s[k] # "/"
         IN <<Slice(s, 1, i - 1)>> \o SplitSlash(Slice(s, i + 1, Len(s)))
    ELSE <<s>>

\* "/".join(comps)
RECURSIVE JoinSlash(_)
JoinSlash(comps) ==
    IF comps = <<>> THEN <<>>
    ELSE IF Len(comps) = 1 THEN comps[1]
    ELSE comps[1] \o <<"/">> \o JoinSlash(Tail(comps))

\* posixpath.join(a, *p): a later absolute part resets the path; a "/" is
\* put between parts unless the path so far is empty or ends with one
RECURSIVE PosixJoin(_)
PosixJoin(parts) ==
    IF Len(parts) = 1 THEN parts[1]
    ELSE LET n == Len(parts)
             path == PosixJoin(SubSeq(parts, 1, n - 1))
             b == parts[n]
         IN IF b # <<>> /\ Head(b) = "/" THEN b
            ELSE IF path = <<>> \/ path[Len(path)] = "/" THEN path \o b
            ELSE path \o <<"/">> \o b

Dot == <<".">>
DotDot == <<".", ".">>

\* the component loop of posixpath.normpath
RECURSIVE NormComps(_, _, _)
NormComps(comps, acc, rooted) ==
    IF comps = <<>> THEN acc
    ELSE LET c == Head(comps)
             rest == Tail(comps)
         IN IF c = <<>> \/ c = Dot THEN NormComps(rest, acc, rooted)
            ELSE IF c # DotDot
                    \/ (~rooted /\ acc = <<>>)
                    \/ (acc # <<>> /\ acc[Len(acc)] = DotDot)
                 THEN NormComps(rest, Append(acc, c), rooted)
            ELSE IF acc # <<>>
                 THEN NormComps(rest, SubSeq(acc, 1, Len(acc) - 1), rooted)
            ELSE NormComps(rest, acc, rooted)

\* posixpath.normpath (POSIX keeps exactly two leading slashes, else one)
NormPath(path) ==
    IF path = <<>> THEN Dot
    ELSE LET slashes == IF Head(path) # "/" THEN 0
                        ELSE IF Len(path) >= 2 /\ path[2] = "/"
                                /\ ~(Len(path) >= 3 /\ path[3] = "/") THEN 2
                        ELSE 1
             body == JoinSlash(NormComps(SplitSlash(path), <<>>, slashes > 0))
             out == [i \in 1..slashes |-> "/"] \o body
         IN IF out = <<>> THEN Dot ELSE out

normalize_zip_path(parts) == LStripTok(NormPath(PosixJoin(parts)), "/")

\* PurePath.suffix of a final path component: from the last "." on, unless
\* that "." is the first or the last character
Suffix(name) ==
    IF \E i \in DOMAIN name : name[i] = "."
    THEN LET i == CHOOSE j \in DOMAIN name :
                      name[j] = "." /\ \A k \in (j + 1)..Len(name) : name[k] # "."
         IN IF 1 < i /\ i < Len(name) THEN Slice(name, i, Len(name)) ELSE <<>>
    ELSE <<>>

\* PurePath.with_suffix(suffix) on a non-empty final component (an empty
\* one is a ValueError, see OutName)
WithSuffix(name, suffix) ==
    IF Suffix(name) = <<>> THEN name \o suffix
    ELSE Slice(name, 1, Len(name) - Len(Suffix(name))) \o suffix

AifmSuffix == <<".", "aifm">>

\* Path ordering (sorted(root.rglob("*"))): component by component
RECURSIVE CompsLess(_, _)
CompsLess(p, q) ==
    IF q = <<>> THEN FALSE
    ELSE IF p = <<>> THEN TRUE
    ELSE IF Head(p) = Head(q) THEN CompsLess(Tail(p), Tail(q))
    ELSE StrLess(Head(p), Head(q))

PathLess(p, q) == CompsLess(SplitSlash(p), SplitSlash(q))

\* a finite set of relative paths as the sequence sorted(...) gives
RECURSIVE SortedPaths(_)
SortedPaths(S) ==
    IF S = {} THEN <<>>
    ELSE LET m == CHOOSE p \in S : \A q \in S \ {p} : PathLess(p, q)
         IN <<m>> \o SortedPaths(S \ {m})

-----------------------------------------------------------------------------
(* Contents and hashing.                                                   *)

\* The content of an input file is one of a few byte strings.
Bytes == 0..MaxByte

BytesData(b) == [kind |-> "bytes", v |-> b]

HexDigits == <<"0", "1", "2", "3", "4", "5", "6", "7", "8", "9",
               "a", "b", "c", "d", "e", "f">>

\* hashlib.sha256(data).hexdigest(): lower-case hexadecimal text of a value
\* that differs for different byte strings (no collision among the modelled
\* contents).  Only byte strings are hashed in this model.
sha256_hex(data) ==
    CASE data.kind = "bytes" ->
        LET h == 160 + data.v
        IN <<HexDigits[(h \div 16) + 1], HexDigits[(h % 16) + 1]>>

\* sha256_file(path) of the converter and sha256_bytes(data) of the reader
sha256_file(data) == sha256_hex(data)

sha256_bytes(data) == sha256_hex(data)

-----------------------------------------------------------------------------
(* The fixed archive-internal paths.                                       *)

ManifestPath == <<"metadata", "/", "manifest", ".", "json">>
ChecksumsPath == <<"verification", "/", "checksums", ".", "sha256">>
ReadmePath == <<"README", ".", "txt">>
PromptPath == <<"metadata", "/", "prompt", "/", "prompt", ".", "txt">>
NegativePromptPath == <<"metadata", "/", "prompt", "/", "negative_prompt", ".", "txt">>
LyricsPath == <<"metadata", "/", "lyrics", ".", "txt">>
PersonaPath == <<"metadata", "/", "persona", ".", "txt">>
DeclarationPath == <<"metadata", "/", "declaration", ".", "txt">>

\* The optional text assets: the ConvertOptions field of each
TextAssets == {"prompt_path", "negative_prompt_path", "lyrics_path",
               "persona_path", "declaration_path"}

-----------------------------------------------------------------------------
(* build_manifest: a dict is a function from its keys.                     *)

\* truthiness of an Optional[Path] option: None is absent, a Path is true
Given(p) == p # None

\* dict with the key only when the condition holds
Opt(cond, key, value) == IF cond THEN key :> value ELSE <<>>

prompt_refs(o) ==
    [prompt |-> IF Given(o.prompt_path) THEN PromptPath ELSE <<>>,
     negative_prompt |-> IF Given(o.negative_prompt_path)
                         THEN NegativePromptPath ELSE <<>>]

build_manifest(o, now) ==
    Opt(o.urls # <<>>, "public_attestation", [urls |-> o.urls, notes |-> ""])
    @@ ("stems_included" :> Given(o.stems_dir))
    @@ Opt(Given(o.prompt_path) \/ Given(o.negative_prompt_path),
           "prompt_refs", prompt_refs(o))
    @@ Opt(Given(o.lyrics_path), "lyrics_ref", LyricsPath)
    @@ Opt(Given(o.declaration_path), "declaration",
           [type |-> "Creator-Declared", text_ref |-> DeclarationPath])
    @@ Opt(Given(o.persona_path), "persona_ref", PersonaPath)
    @@ [aifx_format_version |-> "1.0",
        aifx_spec_version |-> "0.1",
        format |-> "AIFM",
        created_at |-> now,
        title |-> IF o.title # "" THEN o.title ELSE "Untitled",
        description |-> IF o.description # "" THEN o.description ELSE "",
        creation_mode |-> o.creation_mode,
        human_authorship |-> [name |-> o.author,
                              role |-> "AI Content Director",
                              ownership_claim |-> o.ownership_claim,
                              contact |-> o.contact],
        ai_systems |-> [i \in DOMAIN o.ai_systems |->
                           [name |-> o.ai_systems[i], role |-> "generation"]],
        toolchain |-> [apps |-> o.apps, notes |-> o.toolchain_notes],
        inputs |-> [prompts_included |->
                        Given(o.prompt_path) \/ Given(o.negative_prompt_path),
                    seeds_included |-> FALSE,
                    source_assets_included |-> FALSE],
        verification |-> [tier |-> o.tier,
                          method |-> IF o.tier = "SDA" THEN "self-declared"
                                     ELSE "declared",
                          signing |-> "none"],
        integrity |-> [hash_alg |-> "SHA-256", checksums_ref |-> ChecksumsPath]]

\* build_readme: the values the text is formatted from
build_readme(manifest) ==
    [title |-> manifest["title"],
     created_at |-> manifest["created_at"],
     tier |-> manifest["verification"].tier]

-----------------------------------------------------------------------------
(* The checksum ledger.                                                    *)

\* make_checksums_payload_only: payload_entries is a sequence of
\* <<zip_path, content of the local file>>
make_checksums_payload_only(payload_entries) ==
    LET sorted == SortedByKey(payload_entries)
        lines == [i \in DOMAIN sorted |->
                     sha256_file(sorted[i][2]) \o <<" ", " ">> \o sorted[i][1]]
    IN JoinLines(lines) \o <<"\n">>

\* index of the first "  " in a line, 0 when there is none
FirstDoubleSpace(line) ==
    IF \E i \in 1..(Len(line) - 1) : line[i] = " " /\ line[i + 1] = " "
    THEN CHOOSE i \in 1..(Len(line) - 1) :
             /\ line[i] = " " /\ line[i + 1] = " "
             /\ \A k \in 1..(i - 1) : ~(line[k] = " " /\ line[k + 1] = " ")
    ELSE 0

\* the body of the loop of parse_sha256sum for one line: the entries it adds
ParseLine(raw) ==
    LET line == Strip(raw)
        i == FirstDoubleSpace(line)
        parts == SplitWs(line)
    IN IF line = <<>> THEN <<>>
       ELSE IF i > 0
            THEN <<[hash |-> Strip(Slice(line, 1, i - 1)),
                    path |-> Strip(Slice(line, i + 2, Len(line)))]>>
       ELSE IF Len(parts) >= 2 THEN <<[hash |-> parts[1], path |-> parts[2]]>>
       ELSE <<>>

RECURSIVE ParseLines(_)
ParseLines(lines) ==
    IF lines = <<>> THEN <<>> ELSE ParseLine(Head(lines)) \o ParseLines(Tail(lines))

parse_sha256sum(text) == ParseLines(SplitLines(text))

-----------------------------------------------------------------------------
(* ZIP archives: a sequence of entries in the order written.               *)

\* the date_time both zip_write_* functions pin
PinnedTime == <<1980, 1, 1, 0, 0, 0>>

\* zip_write_bytes storing the entry with the current time (ZipFile.writestr
\* given a bare name)
zip_write_bytes_now(zf, arcname, data, now) ==
    Append(zf, [name |-> arcname, date_time |-> <<1980 + now, 1, 1, 0, 0, 0>>,
                data |-> data])

\* zip_write_bytes(zf, arcname, data); now is the wall clock during the call
zip_write_bytes(zf, arcname, data, now) ==
    Append(zf, [name |-> arcname, date_time |-> PinnedTime, data |-> data])

\* zip_write_file(zf, arcname, src_path), the file's content read from src
zip_write_file(zf, arcname, data, now) ==
    Append(zf, [name |-> arcname, date_time |-> PinnedTime, data |-> data])

\* ZipFile.namelist()
namelist(zf) == {zf[i].name : i \in DOMAIN zf}

\* ZipFile.read(name) for a name of the archive: the last entry of that name
ZipRead(zf, name) ==
    LET i == CHOOSE j \in DOMAIN zf :
                 zf[j].name = name /\ \A k \in (j + 1)..Len(zf) : zf[k].name # name
    IN zf[i].data

\* stored bytes b of an entry whose recorded CRC-32 is that of other bytes:
\* the entry is listed, and reading it fails
Damaged(b) == [kind |-> "damaged", v |-> b]

\* ZipFile.read(name) raises BadZipFile ("Bad CRC-32") for a name of the archive
ReadFails(zf, name) == name \in namelist(zf) /\ ZipRead(zf, name).kind = "damaged"

-----------------------------------------------------------------------------
(* convert_aifm.                                                           *)

\* the canonical path of each optional text asset, in the order written
TextOrder == <<"prompt_path", "negative_prompt_path", "lyrics_path",
               "persona_path", "declaration_path">>

TextParts(a) ==
    CASE a = "prompt_path" -> <<<<"metadata">>, <<"prompt">>, <<"prompt", ".", "txt">>>>
      [] a = "negative_prompt_path" ->
             <<<<"metadata">>, <<"prompt">>, <<"negative_prompt", ".", "txt">>>>
      [] a = "lyrics_path" -> <<<<"metadata">>, <<"lyrics", ".", "txt">>>>
      [] a = "persona_path" -> <<<<"metadata">>, <<"persona", ".", "txt">>>>
      [] a = "declaration_path" -> <<<<"metadata">>, <<"declaration", ".", "txt">>>>

\* Validate without the check of the lyrics path
Validate_NoLyricsCheck(o, f) ==
    IF f.audio # "file" THEN "Audio file not found"
    ELSE IF Given(o.stems_dir) /\ ~f.stems_exists THEN "Stems directory not found"
    ELSE IF Given(o.persona_path) /\ ~f.texts["persona_path"]
         THEN "Persona file not found"
    ELSE IF Given(o.declaration_path) /\ ~f.texts["declaration_path"]
         THEN "Declaration file not found"
    ELSE IF Given(o.prompt_path) /\ ~f.texts["prompt_path"]
         THEN "Prompt file not found"
    ELSE IF Given(o.negative_prompt_path) /\ ~f.texts["negative_prompt_path"]
         THEN "Negative prompt file not found"
    ELSE "ok"

\* the existence checks that open convert_aifm: the exception message, or
\* "ok" when every check passes
Validate(o, f) ==
    IF f.audio # "file" THEN "Audio file not found"
    ELSE IF Given(o.stems_dir) /\ ~f.stems_exists THEN "Stems directory not found"
    ELSE IF Given(o.persona_path) /\ ~f.texts["persona_path"]
         THEN "Persona file not found"
    ELSE IF Given(o.declaration_path) /\ ~f.texts["declaration_path"]
         THEN "Declaration file not found"
    ELSE IF Given(o.prompt_path) /\ ~f.texts["prompt_path"]
         THEN "Prompt file not found"
    ELSE IF Given(o.negative_prompt_path) /\ ~f.texts["negative_prompt_path"]
         THEN "Negative prompt file not found"
    ELSE IF Given(o.lyrics_path) /\ ~f.texts["lyrics_path"]
         THEN "Lyrics file not found"
    ELSE "ok"

\* OutName comparing the suffix without lower()
OutName_CaseSensitive(name) ==
    IF Suffix(name) # AifmSuffix
    THEN IF name = <<>> THEN [ok |-> FALSE, name |-> <<>>]
         ELSE [ok |-> TRUE, name |-> WithSuffix(name, AifmSuffix)]
    ELSE [ok |-> TRUE, name |-> name]

\* out = opts.out_path; if out.suffix.lower() != ".aifm": out.with_suffix(".aifm")
\* (the final component; with_suffix raises ValueError on an empty one)
OutName(name) ==
    IF Lower(Suffix(name)) # AifmSuffix
    THEN IF name = <<>> THEN [ok |-> FALSE, name |-> <<>>]
         ELSE [ok |-> TRUE, name |-> WithSuffix(name, AifmSuffix)]
    ELSE [ok |-> TRUE, name |-> name]

\* audio.suffix.lower().lstrip(".") or "wav"
AudioExt(name) ==
    LET e == LStripTok(Lower(Suffix(name)), ".")
    IN IF e = <<>> THEN <<"wav">> ELSE e

AudioZipPath(o) ==
    normalize_zip_path(<<<<"payload">>, <<"audio">>, <<"main", ".">> \o AudioExt(o.audio_name)>>)

\* iter_files_recursive(stems_dir) mapped to (zip_path, file), in its order
StemsFiles(o, f) ==
    IF Given(o.stems_dir)
    THEN LET rels == SortedPaths(DOMAIN f.stems)
         IN [i \in DOMAIN rels |->
                <<normalize_zip_path(<<<<"payload">>, <<"stems">>, rels[i]>>),
                  f.stems[rels[i]]>>]
    ELSE <<>>

PayloadEntries(o, f) == <<<<AudioZipPath(o), f.audio_data>>>> \o StemsFiles(o, f)

\* the zip_write_file calls of the payload block
RECURSIVE WriteFiles(_, _, _)
WriteFiles(zf, files, now) ==
    IF files = <<>> THEN zf
    ELSE WriteFiles(zip_write_file(zf, Head(files)[1], Head(files)[2], now),
                    Tail(files), now)

\* the zip_write_file calls of the optional text assets; opening a source
\* that does not exist raises and ends the writing
RECURSIVE WriteTexts(_, _, _, _, _)
WriteTexts(w, as, o, f, now) ==
    IF as = <<>> \/ ~w.ok THEN w
    ELSE LET a == Head(as)
         IN IF ~Given(o[a]) THEN WriteTexts(w, Tail(as), o, f, now)
            ELSE IF ~f.texts[a] THEN [ok |-> FALSE, zf |-> w.zf]
            ELSE WriteTexts([ok |-> TRUE,
                             zf |-> zip_write_file(w.zf, normalize_zip_path(TextParts(a)),
                                                   f.text_data, now)],
                            Tail(as), o, f, now)

\* the body of "with zipfile.ZipFile(out, 'w') as zf"
WriteArchive(o, f, now) ==
    LET manifest == build_manifest(o, now)
        checksums == make_checksums_payload_only(PayloadEntries(o, f))
        readme == build_readme(manifest)
        z1 == zip_write_file(<<>>, AudioZipPath(o), f.audio_data, now)
        z2 == WriteFiles(z1, SortedByKey(StemsFiles(o, f)), now)
        z3 == zip_write_bytes(z2, normalize_zip_path(<<<<"metadata">>, <<"manifest", ".", "json">>>>),
                              [kind |-> "json", v |-> manifest], now)
        w4 == WriteTexts([ok |-> TRUE, zf |-> z3], TextOrder, o, f, now)
        z5 == zip_write_bytes(w4.zf, normalize_zip_path(<<<<"verification">>, <<"checksums", ".", "sha256">>>>),
                              [kind |-> "text", v |-> checksums], now)
        z6 == zip_write_bytes(z5, ReadmePath, [kind |-> "readme", v |-> readme], now)
    IN IF w4.ok THEN [ok |-> TRUE, zf |-> z6] ELSE w4

\* convert_aifm(opts) at wall-clock time now on the file system f with the
\* output location d: the exception raised ("ok" for none) and the output
\* location afterwards
convert_aifm(o, f, d, now) ==
    LET v == Validate(o, f)
        out == OutName(o.out_name)
    IN IF v # "ok" THEN [status |-> "FileNotFoundError", msg |-> v, disk |-> d]
       ELSE IF ~out.ok THEN [status |-> "ValueError", msg |-> "empty name", disk |-> d]
       ELSE IF f.audio # "file"
            THEN [status |-> "FileNotFoundError", msg |-> "open", disk |-> d]
       ELSE LET w == WriteArchive(o, f, now)
                nd == [dir |-> TRUE, kind |-> "zip", name |-> out.name, zip |-> w.zf]
            IN IF w.ok THEN [status |-> "ok", msg |-> "", disk |-> nd]
               ELSE [status |-> "FileNotFoundError", msg |-> "open", disk |-> nd]

-----------------------------------------------------------------------------
(* The reader.                                                             *)

Missing(path) == [type |-> "Missing", path |-> path, expected |-> <<>>, actual |-> <<>>]

HashMismatch(path, expected, actual) ==
    [type |-> "HashMismatch", path |-> path, expected |-> expected, actual |-> actual]

\* the body of the loop of verify_payload_checksums for one ledger entry:
\* the errors it appends
VerifyEntry(zf, e) ==
    IF e.path \notin namelist(zf) THEN <<Missing(e.path)>>
    ELSE LET actual_hash == sha256_bytes(ZipRead(zf, e.path))
         IN IF Lower(actual_hash) # Lower(e.hash)
            THEN <<HashMismatch(e.path, e.hash, actual_hash)>>
            ELSE <<>>

RECURSIVE VerifyEntries(_, _)
VerifyEntries(zf, entries) ==
    IF entries = <<>> THEN <<>>
    ELSE VerifyEntry(zf, Head(entries)) \o VerifyEntries(zf, Tail(entries))

\* the ledger text of an archive that holds one (decoded permissively)
LedgerText(zf) ==
    LET d == ZipRead(zf, ChecksumsPath)
    IN IF d.kind = "text" THEN d.v ELSE <<>>

\* verify_payload_checksums(zf) for an archive holding a ledger, when no read
\* of it fails
verify_payload_checksums(zf) == VerifyEntries(zf, parse_sha256sum(LedgerText(zf)))

\* verify_payload_checksums(zf) leaves by an exception of zf.read other than
\* the KeyError it catches: the ledger, or a file a ledger entry lists, fails
\* to read; the errors collected so far are not returned
VerifyRaises(zf) ==
    \/ ReadFails(zf, ChecksumsPath)
    \/ /\ ~ReadFails(zf, ChecksumsPath)
       /\ \E e \in Range(parse_sha256sum(LedgerText(zf))) : ReadFails(zf, e.path)

RequiredFiles == <<ManifestPath, ChecksumsPath, ReadmePath>>

NoRead == [op |-> "none", rc |-> -1, exc |-> "", manifest_read |-> FALSE,
           verified |-> FALSE, errors |-> <<>>]

\* ReaderMain with README.txt left out of required_files
ReaderMain_NoReadme(d, json) ==
    LET r == [NoRead EXCEPT !.op = "main"]
    IN IF d.kind = "none" THEN [r EXCEPT !.rc = 1, !.exc = "File not found"]
       ELSE IF d.kind # "zip" THEN [r EXCEPT !.rc = 3, !.exc = "BadZipFile"]
       ELSE IF \E i \in 1..2 : RequiredFiles[i] \notin namelist(d.zip)
            THEN [r EXCEPT !.rc = 1, !.exc = "Missing required file"]
       ELSE IF ReadFails(d.zip, ManifestPath)
            THEN [r EXCEPT !.rc = 3, !.exc = "BadZipFile"]
       ELSE IF ZipRead(d.zip, ManifestPath).kind # "json"
            THEN [r EXCEPT !.rc = 4, !.exc = "JSONDecodeError"]
       ELSE IF json THEN [r EXCEPT !.rc = 0, !.manifest_read = TRUE]
       ELSE IF ReadFails(d.zip, PersonaPath) \/ ReadFails(d.zip, DeclarationPath)
            THEN [r EXCEPT !.rc = 3, !.exc = "BadZipFile", !.manifest_read = TRUE]
       ELSE IF VerifyRaises(d.zip)
            THEN [r EXCEPT !.rc = 3, !.exc = "BadZipFile", !.manifest_read = TRUE]
       ELSE LET errors == verify_payload_checksums(d.zip)
            IN [r EXCEPT !.rc = IF errors # <<>> THEN 2 ELSE 0,
                         !.manifest_read = TRUE, !.verified = TRUE,
                         !.errors = errors]

\* main() of the reader on the output location d, with or without --json:
\* the exit code and what it did on the way
ReaderMain(d, json) ==
    LET r == [NoRead EXCEPT !.op = "main"]
    IN IF d.kind = "none" THEN [r EXCEPT !.rc = 1, !.exc = "File not found"]
       ELSE IF d.kind # "zip" THEN [r EXCEPT !.rc = 3, !.exc = "BadZipFile"]
       ELSE IF \E i \in DOMAIN RequiredFiles : RequiredFiles[i] \notin namelist(d.zip)
            THEN [r EXCEPT !.rc = 1, !.exc = "Missing required file"]
       ELSE IF ReadFails(d.zip, ManifestPath)
            THEN [r EXCEPT !.rc = 3, !.exc = "BadZipFile"]
       ELSE IF ZipRead(d.zip, ManifestPath).kind # "json"
            THEN [r EXCEPT !.rc = 4, !.exc = "JSONDecodeError"]
       ELSE IF json THEN [r EXCEPT !.rc = 0, !.manifest_read = TRUE]
       ELSE IF ReadFails(d.zip, PersonaPath) \/ ReadFails(d.zip, DeclarationPath)
            THEN [r EXCEPT !.rc = 3, !.exc = "BadZipFile", !.manifest_read = TRUE]
       ELSE IF VerifyRaises(d.zip)
            THEN [r EXCEPT !.rc = 3, !.exc = "BadZipFile", !.manifest_read = TRUE]
       ELSE LET errors == verify_payload_checksums(d.zip)
            IN [r EXCEPT !.rc = IF errors # <<>> THEN 2 ELSE 0,
                         !.manifest_read = TRUE, !.verified = TRUE,
                         !.errors = errors]

-----------------------------------------------------------------------------
(* The state machine.                                                      *)
(*   opts, fs  the ConvertOptions of the caller and the input files        *)
(*   disk      the output location: its parent directory and the file      *)
(*   runs      one record per convert_aifm call, with the name and the     *)
(*             content of the archive it wrote                             *)
(*   edits     what was done to the output file since it was written       *)
(*   rd        the outcome of the last read of the output file as it is    *)

BytesSet == {BytesData(b) : b \in Bytes}

NoDisk == [dir |-> FALSE, kind |-> "none", name |-> <<>>, zip |-> <<>>]

BaseOpts ==
    [audio_name |-> <<"o", ".", "wav">>, out_name |-> <<"o", ".", "aifm">>,
     title |-> "T", description |-> "", creation_mode |-> "human-directed-ai",
     tier |-> "SDA", author |-> "", contact |-> "", ownership_claim |-> TRUE,
     ai_systems |-> <<>>, apps |-> <<>>, toolchain_notes |-> "",
     prompt_path |-> None, negative_prompt_path |-> None, lyrics_path |-> None,
     stems_dir |-> None, persona_path |-> None, declaration_path |-> None,
     urls |-> <<>>]

BaseFs ==
    [audio |-> "file", audio_data |-> BytesData(0), stems_exists |-> FALSE,
     stems |-> <<>>, texts |-> [a \in TextAssets |-> FALSE],
     text_data |-> BytesData(0)]

\* options naming the text assets of S, each at the path "p"
WithTexts(o, S) ==
    [o EXCEPT !.prompt_path = IF "prompt_path" \in S THEN "p" ELSE None,
              !.negative_prompt_path = IF "negative_prompt_path" \in S THEN "p" ELSE None,
              !.lyrics_path = IF "lyrics_path" \in S THEN "p" ELSE None,
              !.persona_path = IF "persona_path" \in S THEN "p" ELSE None,
              !.declaration_path = IF "declaration_path" \in S THEN "p" ELSE None]

\* file names under the stems directory
NameAlphabet == {"x", " "}

StemNames ==
    {n \in SeqsUpTo(NameAlphabet, MaxNameLen) : n # <<>>}
        \cup {<<"x", "/", "y">>, <<"x", "\n", "y">>}

AudioNames == {<<"o">>, <<"o", ".", "wav">>, <<"o", ".", "WAV">>}

OutNames ==
    {<<>>, <<"o">>, <<"o", ".">>, <<".", "aifm">>, <<"o", ".", "aifm">>,
     <<"o", ".", "AIFM">>, <<"o", ".", "zip">>, <<"o", ".", "aifm", ".", "zip">>,
     <<"o", ".", "x", ".", "zip">>}

Start ==
    /\ runs = <<>>
    /\ edits = <<>>
    /\ rd = NoRead

OneStem == <<"x">> :> BytesData(1)

\* two callers: audio alone, and audio with a stems directory, every optional
\* text asset and a URL; all inputs exist
Init ==
    /\ \/ opts = BaseOpts /\ fs = BaseFs
       \/ /\ opts = [WithTexts(BaseOpts, TextAssets) EXCEPT !.stems_dir = "stems",
                                                            !.urls = <<"u">>]
          /\ fs = [BaseFs EXCEPT !.texts = [a \in TextAssets |-> TRUE],
                                 !.stems_exists = TRUE, !.stems = OneStem]
    /\ disk = NoDisk
    /\ Start

\* inputs that vary the files of the stems directory
InitLedger ==
    /\ \E S \in SUBSET StemNames :
          /\ Cardinality(S) <= MaxStems
          /\ opts = [BaseOpts EXCEPT !.stems_dir = "stems"]
          /\ fs = [BaseFs EXCEPT !.stems_exists = TRUE,
                                 !.stems = [n \in S |-> BytesData(1)]]
    /\ disk = NoDisk
    /\ Start

\* inputs of the writer: which optional assets the caller supplies, which of
\* the named inputs exist, where the output goes, the audio file name, the
\* tier and the title
InitWrite ==
    /\ \/ \E S \in SUBSET TextAssets, u \in {<<>>, <<"u">>}, sd \in {None, "stems"} :
             /\ opts = [WithTexts(BaseOpts, S) EXCEPT !.urls = u, !.stems_dir = sd]
             /\ fs = [BaseFs EXCEPT !.texts = [a \in TextAssets |-> a \in S],
                                    !.stems_exists = sd # None,
                                    !.stems = IF sd # None THEN OneStem ELSE <<>>]
       \/ \E S \in {{}, TextAssets}, M \in SUBSET TextAssets,
             sd \in {"none", "ok", "missing"}, au \in {"file", "absent", "dir"} :
             /\ opts = [WithTexts(BaseOpts, S \cup M) EXCEPT
                           !.stems_dir = IF sd = "none" THEN None ELSE "stems"]
             /\ fs = [BaseFs EXCEPT !.audio = au,
                                    !.texts = [a \in TextAssets |-> a \in S \ M],
                                    !.stems_exists = (sd = "ok"),
                                    !.stems = IF sd = "ok" THEN OneStem ELSE <<>>]
       \/ \E on \in OutNames :
             /\ opts = [BaseOpts EXCEPT !.out_name = on]
             /\ fs = BaseFs
       \/ \E an \in AudioNames, t \in {"SDA", "VC"}, ti \in {"", "T"} :
             /\ opts = [BaseOpts EXCEPT !.audio_name = an, !.tier = t, !.title = ti]
             /\ fs = BaseFs
    /\ disk \in {NoDisk, [NoDisk EXCEPT !.dir = TRUE]}
    /\ Start

\* the wall clock does not run backwards between two calls
Clock == IF runs = <<>> THEN 1 ELSE runs[Len(runs)].now

\* a call of convert_aifm(opts)
Convert ==
    /\ Len(runs) < MaxRuns
    /\ \E now \in Clock..MaxClock :
          LET r == convert_aifm(opts, fs, disk, now)
          IN /\ disk' = r.disk
             /\ runs' = Append(runs, [now |-> now, status |-> r.status, msg |-> r.msg,
                                      out |-> IF r.status = "ok" THEN r.disk.name ELSE <<>>,
                                      zip |-> IF r.status = "ok" THEN r.disk.zip ELSE <<>>])
             /\ edits' = IF r.status = "ok" THEN <<>> ELSE edits
    /\ rd' = NoRead
    /\ UNCHANGED <<opts, fs>>

CanEdit == disk.kind = "zip" /\ Len(edits) < MaxEdits

\* the content of one stored file is changed
TamperEntry ==
    /\ CanEdit
    /\ \E i \in DOMAIN disk.zip, b \in BytesSet :
          /\ disk.zip[i].data.kind = "bytes"
          /\ disk.zip[i].data # b
          /\ disk' = [disk EXCEPT !.zip[i].data = b]
          /\ edits' = Append(edits, [op |-> "tamper", name |-> disk.zip[i].name])
    /\ rd' = NoRead
    /\ UNCHANGED <<opts, fs, runs>>

\* the manifest is overwritten with text that is not JSON
GarbleManifest ==
    /\ CanEdit
    /\ \E i \in DOMAIN disk.zip :
          /\ disk.zip[i].data.kind = "json"
          /\ disk' = [disk EXCEPT !.zip[i].data = [kind |-> "garbled", v |-> 0]]
          /\ edits' = Append(edits, [op |-> "garble", name |-> disk.zip[i].name])
    /\ rd' = NoRead
    /\ UNCHANGED <<opts, fs, runs>>

\* one stored file is removed from the archive
RemoveEntry ==
    /\ CanEdit
    /\ \E i \in DOMAIN disk.zip :
          /\ disk' = [disk EXCEPT !.zip = SubSeq(disk.zip, 1, i - 1)
                                          \o SubSeq(disk.zip, i + 1, Len(disk.zip))]
          /\ edits' = Append(edits, [op |-> "remove", name |-> disk.zip[i].name])
    /\ rd' = NoRead
    /\ UNCHANGED <<opts, fs, runs>>

\* bytes of one stored file are changed in place: the entry keeps the CRC-32
\* recorded for the bytes it had
FlipByte ==
    /\ CanEdit
    /\ \E i \in DOMAIN disk.zip, b \in Bytes :
          /\ disk.zip[i].data.kind = "bytes"
          /\ disk.zip[i].data.v # b
          /\ disk' = [disk EXCEPT !.zip[i].data = Damaged(b)]
          /\ edits' = Append(edits, [op |-> "flip", name |-> disk.zip[i].name])
    /\ rd' = NoRead
    /\ UNCHANGED <<opts, fs, runs>>

\* the output file is cut so that it is no ZIP file any more
TruncateFile ==
    /\ CanEdit
    /\ disk' = [disk EXCEPT !.kind = "notzip", !.zip = <<>>]
    /\ edits' = Append(edits, [op |-> "truncate", name |-> <<>>])
    /\ rd' = NoRead
    /\ UNCHANGED <<opts, fs, runs>>

\* a call of verify_payload_checksums on the opened output file
Verify ==
    /\ disk.kind = "zip"
    /\ rd.op = "none"
    /\ rd' = IF ChecksumsPath \notin namelist(disk.zip)
             THEN [NoRead EXCEPT !.op = "verify", !.exc = "KeyError"]
             ELSE IF VerifyRaises(disk.zip)
             THEN [NoRead EXCEPT !.op = "verify", !.exc = "BadZipFile"]
             ELSE [NoRead EXCEPT !.op = "verify", !.verified = TRUE,
                                 !.errors = verify_payload_checksums(disk.zip)]
    /\ UNCHANGED <<opts, fs, disk, runs, edits>>

\* a run of the reader's main on the output file
Read ==
    /\ rd.op = "none"
    /\ \E json \in BOOLEAN : rd' = ReaderMain(disk, json)
    /\ UNCHANGED <<opts, fs, disk, runs, edits>>

Next ==
    \/ Convert
    \/ TamperEntry
    \/ GarbleManifest
    \/ RemoveEntry
    \/ TruncateFile
    \/ Verify
    \/ Read

Spec == Init /\ [][Next]_vars

\* the writer alone, over its inputs
SpecWrite == InitWrite /\ [][Convert]_vars

\* write, change one stored file, verify: over the stems inputs
NextVerify ==
    \/ Convert
    \/ TamperEntry
    \/ RemoveEntry
    \/ Verify

SpecLedger == InitLedger /\ [][NextVerify]_vars

\* The reader given an archive from anywhere: any ledger text over a few
\* lines, any stored audio, a stem file or none.
AuditAudio == <<"payload", "/", "audio", "/", "main", ".", "wav">>

AuditStem == <<"payload", "/", "stems", "/", "x">>

\* digests as a ledger may spell them: lower case, upper case
AuditDigests == {sha256_hex(BytesData(0)), <<"A", "0">>, sha256_hex(BytesData(1))}

\* ledger lines: "<digest>  <path>", one "<digest> <path>", one without a
\* path, an empty one
AuditLines ==
    {d \o <<" ", " ">> \o p : d \in AuditDigests, p \in {AuditAudio, AuditStem}}
        \cup {sha256_hex(BytesData(0)) \o <<" ">> \o AuditAudio, <<"x">>, <<>>}

AuditEntry(name, data) == [name |-> name, date_time |-> PinnedTime, data |-> data]

InitAudit ==
    /\ opts = BaseOpts
    /\ fs = BaseFs
    /\ \E lines \in SeqsUpTo(AuditLines, MaxLines), a \in BytesSet,
          st \in SUBSET BytesSet :
          /\ Cardinality(st) <= 1
          /\ disk = [dir |-> TRUE, kind |-> "zip", name |-> <<"o", ".", "aifm">>,
                     zip |-> <<AuditEntry(AuditAudio, a)>>
                             \o (IF st = {} THEN <<>>
                                 ELSE <<AuditEntry(AuditStem, CHOOSE d \in st : TRUE)>>)
                             \o <<AuditEntry(ChecksumsPath,
                                    [kind |-> "text",
                                     v |-> JoinLines(lines) \o <<"\n">>])>>]
    /\ Start

NextAudit ==
    \/ FlipByte
    \/ Verify

SpecAudit == InitAudit /\ [][NextAudit]_vars

-----------------------------------------------------------------------------
(* Properties.                                                             *)

StartsWith(s, p) == Len(s) >= Len(p) /\ SubSeq(s, 1, Len(p)) = p

EndsWith(s, p) == Len(s) >= Len(p) /\ SubSeq(s, Len(s) - Len(p) + 1, Len(s)) = p

\* the output file is an archive exactly as a successful convert_aifm left it
Produced ==
    /\ disk.kind = "zip"
    /\ edits = <<>>
    /\ runs # <<>>
    /\ runs[Len(runs)].status = "ok"

\* the paths the ledger of the output file references
LedgerPaths ==
    IF ChecksumsPath \in namelist(disk.zip)
    THEN {e.path : e \in Range(parse_sha256sum(LedgerText(disk.zip)))}
    ELSE {}

\* the output file was produced by the writer and then changed by exactly
\* this one edit of a file the (unchanged) ledger references
OneEdit(op) ==
    /\ disk.kind = "zip"
    /\ runs # <<>>
    /\ runs[Len(runs)].status = "ok"
    /\ Len(edits) = 1
    /\ edits[1].op = op
    /\ edits[1].name \in LedgerPaths

\* C1: round-trip integrity: verify_payload_checksums on an archive that
\* convert_aifm produced, whatever the stem file names, returns no discrepancy.
C1_RoundTrip ==
    (Produced /\ rd.op = "verify") => (rd.exc = "" /\ rd.errors = <<>>)

\* C2: tamper detection: after the content of one ledger-referenced file of a
\* produced archive is changed, verify_payload_checksums returns exactly one
\* discrepancy, a hash mismatch for that file's path.
C2_TamperDetection ==
    (OneEdit("tamper") /\ rd.op = "verify") =>
        /\ Len(rd.errors) = 1
        /\ rd.errors[1].type = "HashMismatch"
        /\ rd.errors[1].path = edits[1].name

\* C3: missing-file detection: after one ledger-listed payload file of a
\* produced archive is removed, verify_payload_checksums returns exactly one
\* discrepancy, a missing-payload-file one.
C3_MissingDetection ==
    (OneEdit("remove") /\ rd.op = "verify") =>
        /\ Len(rd.errors) = 1
        /\ rd.errors[1].type = "Missing"

\* the path a ledger line lists when read as the writer formats it: what
\* follows the first two spaces, verbatim (the line itself when it has none)
RawLinePath(line) ==
    IF FirstDoubleSpace(line) > 0
    THEN Slice(line, FirstDoubleSpace(line) + 2, Len(line))
    ELSE line

\* C4: payload-only ledger: in a produced archive the paths the ledger lists
\* are exactly the entries under payload/, one ledger line per payload file,
\* and none is under metadata/ or verification/ or is README.txt.
C4_PayloadOnlyLedger ==
    Produced =>
        LET lines == SplitLines(LedgerText(disk.zip))
            listed == {RawLinePath(lines[i]) : i \in DOMAIN lines}
            payload == {n \in namelist(disk.zip) : StartsWith(n, <<"payload", "/">>)}
        IN /\ listed = payload
           /\ Len(lines) = Cardinality(payload)
           /\ \A p \in listed :
                 /\ ~StartsWith(p, <<"metadata", "/">>)
                 /\ ~StartsWith(p, <<"verification", "/">>)
                 /\ p # ReadmePath

\* the manifest stored in the archive the last convert_aifm call wrote
WrittenManifest == ZipRead(runs[Len(runs)].zip, ManifestPath).v

Converted == runs # <<>> /\ runs[Len(runs)].status = "ok"

\* C5: optional-field presence: build_manifest emits exactly the optional
\* fields backed by a supplied asset, the references inside prompt_refs
\* included, and none of them with an empty placeholder value.
C5_OptionalFieldPresence ==
    Converted =>
        LET m == WrittenManifest
        IN /\ ("persona_ref" \in DOMAIN m) <=> Given(opts.persona_path)
           /\ ("declaration" \in DOMAIN m) <=> Given(opts.declaration_path)
           /\ ("lyrics_ref" \in DOMAIN m) <=> Given(opts.lyrics_path)
           /\ ("public_attestation" \in DOMAIN m) <=> (opts.urls # <<>>)
           /\ ("prompt_refs" \in DOMAIN m) <=>
                  (Given(opts.prompt_path) \/ Given(opts.negative_prompt_path))
           /\ "prompt_refs" \in DOMAIN m =>
                  /\ ("prompt" \in DOMAIN m["prompt_refs"]) <=> Given(opts.prompt_path)
                  /\ ("negative_prompt" \in DOMAIN m["prompt_refs"])
                         <=> Given(opts.negative_prompt_path)
                  /\ \A k \in DOMAIN m["prompt_refs"] : m["prompt_refs"][k] # <<>>

\* the values of the reference fields present in a manifest
ManifestRefs(m) ==
    {m["integrity"].checksums_ref}
        \cup (IF "persona_ref" \in DOMAIN m THEN {m["persona_ref"]} ELSE {})
        \cup (IF "declaration" \in DOMAIN m THEN {m["declaration"].text_ref} ELSE {})
        \cup (IF "lyrics_ref" \in DOMAIN m THEN {m["lyrics_ref"]} ELSE {})
        \cup (IF "prompt_refs" \in DOMAIN m
              THEN {m["prompt_refs"][k] : k \in DOMAIN m["prompt_refs"]} ELSE {})

\* C6: manifest references resolve: every reference field present in the
\* manifest of a produced archive names an entry of that archive.
C6_ReferencesResolve ==
    Produced => ManifestRefs(WrittenManifest) \subseteq namelist(disk.zip)

\* an input the caller named does not exist
InputMissing ==
    \/ fs.audio = "absent"
    \/ Given(opts.stems_dir) /\ ~fs.stems_exists
    \/ \E a \in TextAssets : Given(opts[a]) /\ ~fs.texts[a]

\* C7: all-or-nothing validation: a convert_aifm call with a missing input
\* fails with FileNotFoundError and leaves the output location as it was: no
\* parent directory made, no archive created or written.
C7_AllOrNothing ==
    [][(Len(runs') = Len(runs) + 1 /\ InputMissing) =>
           /\ runs'[Len(runs')].status = "FileNotFoundError"
           /\ disk' = disk]_vars

\* C7 witness: a call failed on a missing optional asset (audio and stems
\* present) with the parent directory still not made
C7_Witness ==
    /\ runs # <<>>
    /\ runs[Len(runs)].status = "FileNotFoundError"
    /\ fs.audio = "file"
    /\ ~(Given(opts.stems_dir) /\ ~fs.stems_exists)
    /\ Given(opts.lyrics_path) /\ ~fs.texts["lyrics_path"]
    /\ \A a \in TextAssets \ {"lyrics_path"} : Given(opts[a]) => fs.texts[a]
    /\ disk = NoDisk

\* every input the caller named exists
InputsValid == fs.audio = "file" /\ ~InputMissing

\* C8 as claimed (for a non-empty final component): an output name not ending
\* with .aifm gets .aifm appended and is never rejected; one ending with .aifm
\* in any letter case is used as given.
C8_Original ==
    (runs # <<>> /\ InputsValid /\ opts.out_name # <<>>) =>
        /\ runs[Len(runs)].status = "ok"
        /\ runs[Len(runs)].out = IF EndsWith(Lower(opts.out_name), <<".", "aifm">>)
                       THEN opts.out_name
                       ELSE opts.out_name \o <<".", "aifm">>

\* position of the last "." of a name, 0 when it has none
LastDot(n) ==
    IF \E i \in DOMAIN n : n[i] = "."
    THEN CHOOSE i \in DOMAIN n : n[i] = "." /\ \A k \in DOMAIN n : n[k] = "." => k <= i
    ELSE 0

\* C8 as amended: for a non-empty final component of the output path, the
\* archive is written under that name when its extension (what follows a last
\* "." that is neither the first nor the last character) is aifm in any letter
\* case, and otherwise under the name with its extension, if it has one,
\* replaced by .aifm, so that .aifm is appended only to a name without
\* extension; the call is not rejected.
C8_OutputExtension ==
    (runs # <<>> /\ InputsValid /\ opts.out_name # <<>>) =>
        LET n == opts.out_name
            d == LastDot(n)
            hasExt == 1 < d /\ d < Len(n)
            stem == IF hasExt THEN SubSeq(n, 1, d - 1) ELSE n
        IN /\ runs[Len(runs)].status = "ok"
           /\ runs[Len(runs)].out = IF hasExt /\ Lower(SubSeq(n, d + 1, Len(n))) = <<"aifm">>
                          THEN n
                          ELSE stem \o <<".", "aifm">>

\* C8 witness: an output name with another extension, which was replaced
C8_Witness ==
    /\ Converted
    /\ opts.out_name = <<"o", ".", "zip">>
    /\ runs[Len(runs)].out = <<"o", ".", "aifm">>
    /\ disk.kind = "zip" /\ disk.name = <<"o", ".", "aifm">>

\* C9 as claimed: two successful runs on the same inputs give the same
\* entries in the same order, with pinned timestamps, and the same content in
\* every entry but for created_at of metadata/manifest.json.
SameButCreatedAt(a, b) ==
    IF a.kind = "json" /\ b.kind = "json"
    THEN [a.v EXCEPT !["created_at"] = 0] = [b.v EXCEPT !["created_at"] = 0]
    ELSE a = b

C9_Original ==
    \A i, j \in DOMAIN runs :
        (runs[i].status = "ok" /\ runs[j].status = "ok") =>
            LET za == runs[i].zip
                zb == runs[j].zip
            IN /\ Len(za) = Len(zb)
               /\ \A k \in DOMAIN za :
                     /\ k \in DOMAIN zb
                     /\ za[k].name = zb[k].name
                     /\ za[k].date_time = PinnedTime
                     /\ za[k].date_time = zb[k].date_time
                     /\ SameButCreatedAt(za[k].data, zb[k].data)

\* C9 as amended: as claimed, but the README.txt of the two archives also
\* differs, in the creation time it prints, and in nothing else.
SameButTimes(a, b) ==
    IF a.kind = "readme" /\ b.kind = "readme"
    THEN [a.v EXCEPT !.created_at = 0] = [b.v EXCEPT !.created_at = 0]
    ELSE SameButCreatedAt(a, b)

C9_Determinism ==
    \A i, j \in DOMAIN runs :
        (runs[i].status = "ok" /\ runs[j].status = "ok") =>
            LET za == runs[i].zip
                zb == runs[j].zip
            IN /\ Len(za) = Len(zb)
               /\ \A k \in DOMAIN za :
                     /\ k \in DOMAIN zb
                     /\ za[k].name = zb[k].name
                     /\ za[k].date_time = PinnedTime
                     /\ za[k].date_time = zb[k].date_time
                     /\ SameButTimes(za[k].data, zb[k].data)
                     /\ (za[k].name = ReadmePath /\ runs[i].now = runs[j].now)
                            => za[k].data = zb[k].data

\* C9 witness: two successful runs at different times, with stems and every
\* optional text asset
C9_Witness ==
    /\ Len(runs) >= 2
    /\ runs[1].status = "ok" /\ runs[2].status = "ok"
    /\ runs[1].now # runs[2].now
    /\ DOMAIN fs.stems # {}
    /\ \A a \in TextAssets : Given(opts[a])

\* the reader's main ran on an archive lacking a mandatory entry
StructuralFailure ==
    /\ rd.op = "main"
    /\ disk.kind = "zip"
    /\ \E q \in {ManifestPath, ChecksumsPath, ReadmePath} : q \notin namelist(disk.zip)

\* C10: structural validity is distinct from integrity: on an archive lacking
\* a mandatory entry main ends with exit code 1 before it reads the manifest
\* or verifies a checksum, where an integrity failure (discrepancies found)
\* ends with 2 and a passed verification with 0.
C10_StructuralDistinct ==
    /\ StructuralFailure => (rd.rc = 1 /\ ~rd.manifest_read /\ ~rd.verified)
    /\ (rd.op = "main" /\ rd.verified /\ rd.errors # <<>>) => rd.rc = 2
    /\ (rd.op = "main" /\ rd.verified /\ rd.errors = <<>>) => rd.rc = 0

\* C10 witness: main ran on an archive whose README.txt was removed
C10_Witness ==
    /\ StructuralFailure
    /\ ReadmePath \notin namelist(disk.zip)
    /\ ManifestPath \in namelist(disk.zip)
    /\ ChecksumsPath \in namelist(disk.zip)

\* the entries verify_payload_checksums parses from the ledger of the archive
AuditEntries == parse_sha256sum(LedgerText(disk.zip))

\* the SHA-256 of the bytes the archive stores under a name
StoredHash(name) == sha256_hex(BytesData(ZipRead(disk.zip, name).v))

\* a ledger entry whose path is absent from the archive or whose stored bytes
\* hash differently from the listed digest, case ignored
Discrepant(e) ==
    \/ e.path \notin namelist(disk.zip)
    \/ Lower(StoredHash(e.path)) # Lower(e.hash)

DiscrepantIdx == {i \in DOMAIN AuditEntries : Discrepant(AuditEntries[i])}

\* the k-th discrepant entry in ledger order
NthDiscrepant(k) ==
    CHOOSE i \in DiscrepantIdx : Cardinality({j \in DiscrepantIdx : j < i}) = k - 1

\* the errors are one per discrepant ledger entry, in ledger order, and none
\* else
FullList(errors) ==
    /\ Len(errors) = Cardinality(DiscrepantIdx)
    /\ \A k \in DOMAIN errors :
          LET e == AuditEntries[NthDiscrepant(k)]
          IN /\ errors[k].path = e.path
             /\ errors[k].type = IF e.path \in namelist(disk.zip)
                                 THEN "HashMismatch" ELSE "Missing"
             /\ errors[k].type = "HashMismatch" =>
                    /\ errors[k].expected = e.hash
                    /\ errors[k].actual = StoredHash(e.path)

VerifiedLedger ==
    /\ disk.kind = "zip"
    /\ rd.op = "verify"
    /\ ChecksumsPath \in namelist(disk.zip)

\* C11: complete, ledger-driven verification: for any archive and any ledger,
\* verify_payload_checksums returns a list holding exactly one discrepancy for
\* each parsed ledger entry whose path is absent from the archive or whose
\* stored bytes hash (case ignored) differently from the listed digest, in
\* ledger order, and nothing for files the ledger does not reference.
C11_CompleteVerification ==
    VerifiedLedger => (rd.exc = "" /\ FullList(rd.errors))

\* the same for archives in which every file the ledger lists can be read
C11_ReadableEntries ==
    (VerifiedLedger /\ \A e \in Range(AuditEntries) : ~ReadFails(disk.zip, e.path))
        => (rd.exc = "" /\ FullList(rd.errors))

\* a verification that went through the whole ledger met a missing file and
\* then a differing one
C11_ReadableWitness ==
    /\ VerifiedLedger
    /\ rd.exc = ""
    /\ Len(rd.errors) = 2
    /\ rd.errors[1].type = "Missing"
    /\ rd.errors[2].type = "HashMismatch"

====
